---- MODULE Spec2Model ----
(***************************************************************************)
(* The auditor daemon (rucio/daemons/auditorqt): the three pass tally      *)
(* engine of consistencycheck/consistency_check.py and of                  *)
(* profiles/generic.py, the result file generic_auditor writes, the loop   *)
(* of auditor_qt.run_once over the RSEs, and output.py's process_output    *)
(* and bz2_compress_file.  Each part has its specification:                *)
(*   Spec            one run of generic_auditor with no earlier result     *)
(*   SpecAuditor     generic_auditor from its test for an earlier result   *)
(*   SpecDuplicates  the run on a storage dump that repeats a line         *)
(*   SpecRuns        consistency_check_faster called by two threads        *)
(*   SpecOnce        run_once                                              *)
(*   SpecOutput      process_output and bz2_compress_file                  *)
(* Beside the auditor's run, its helpers and the conveyor's consumer:      *)
(*   SpecFetch       fetch_object_store (SpecFetchFair: with WF)           *)
(*   SpecNewest      get_newest_dump over the links of a listing           *)
(*   SpecThreads     auditor_qt.run, its threads and its joins             *)
(*   SpecConsumer    conveyor/consumer.py's run, consumer and stop         *)
(*                   (SpecConsumerFair: with WF of run and of each thread) *)
(*                                                                         *)
(* A text (a line, a key, a file's content) is a sequence of one-character *)
(* strings, so that strip, split, replace and the comparison of keys are   *)
(* computed character by character as Python computes them.               *)
(***************************************************************************)
EXTENDS Integers, Sequences, FiniteSets, TLC

\* The three dumps of one run hold at most MaxLines lines together.
MaxLines == 4

\* The same, for the runs of generic_auditor that start at its test for an
\* earlier result.
MaxAuditLines == 2

----------------------------------------------------------------------------
(* Python's str operations, as the engine uses them.                       *)

IsSpace(c) == c \in {" ", "\n", "\t"}

RECURSIVE lstrip(_)
lstrip(s) == IF s # <<>> /\ IsSpace(Head(s)) THEN lstrip(Tail(s)) ELSE s

RECURSIVE rstrip(_)
rstrip(s) ==
    IF s # <<>> /\ IsSpace(s[Len(s)]) THEN rstrip(SubSeq(s, 1, Len(s) - 1)) ELSE s

\* line.strip()
strip(s) == rstrip(lstrip(s))

\* the length of the first whitespace-free run of a text that starts with one
TokenLen(s) ==
    IF \E j \in 1..Len(s) : IsSpace(s[j])
    THEN (CHOOSE j \in 1..Len(s) :
              IsSpace(s[j]) /\ \A m \in 1..(j - 1) : ~IsSpace(s[m])) - 1
    ELSE Len(s)

\* str.split() with no argument: the whitespace-separated fields
RECURSIVE split(_)
split(s) ==
    LET t == lstrip(s)
    IN  IF t = <<>> THEN <<>>
        ELSE LET n == TokenLen(t)
             IN  <<SubSeq(t, 1, n)>> \o split(SubSeq(t, n + 1, Len(t)))

\* s.replace(old, new, 1) for one-character old and new
replace(s, old, new) ==
    IF \E j \in 1..Len(s) : s[j] = old
    THEN LET j == CHOOSE m \in 1..Len(s) :
                      s[m] = old /\ \A n \in 1..(m - 1) : s[n] # old
         IN  [s EXCEPT ![j] = new]
    ELSE s

\* the lines of a file's content, as iterating the open file yields them:
\* each line keeps its terminator, the last one may have none
RECURSIVE readlines(_)
readlines(data) ==
    IF data = <<>> THEN <<>>
    ELSE IF \E j \in 1..Len(data) : data[j] = "\n"
         THEN LET j == CHOOSE m \in 1..Len(data) :
                           data[m] = "\n" /\ \A n \in 1..(m - 1) : data[n] # "\n"
              IN  <<SubSeq(data, 1, j)>> \o readlines(SubSeq(data, j + 1, Len(data)))
         ELSE <<data>>

----------------------------------------------------------------------------
(* Python's dict, kept in insertion order: a sequence of [key, value].     *)

contains(d, k) == \E j \in 1..Len(d) : d[j].key = k

getitem(d, k) == d[CHOOSE j \in 1..Len(d) : d[j].key = k].value

setitem(d, k, v) ==
    IF contains(d, k)
    THEN [j \in 1..Len(d) |-> IF d[j].key = k THEN [key |-> k, value |-> v] ELSE d[j]]
    ELSE Append(d, [key |-> k, value |-> v])

\* [k for k in out if out[k] == tally]
RECURSIVE keys_with(_, _)
keys_with(d, tally) ==
    IF d = <<>> THEN <<>>
    ELSE (IF Head(d).value = tally THEN <<Head(d).key>> ELSE <<>>)
             \o keys_with(Tail(d), tally)

----------------------------------------------------------------------------
(* The dumps a run can be given.                                           *)

NL == <<"\n">>
StatusA == <<"A">>
StatusU == <<"U">>
Field == <<"x">>
Paths == { <<"s", "/", "a">>, <<"/", "b">> }

RECURSIVE Join(_)
Join(fields) ==
    IF Len(fields) = 0 THEN <<>>
    ELSE IF Len(fields) = 1 THEN fields[1]
    ELSE fields[1] \o <<" ">> \o Join(Tail(fields))

\* a catalog dump line of n fields: the path is field 8, the status field 11
CatalogLine(path, status, n) ==
    Join([j \in 1..n |-> IF j = 8 THEN path ELSE IF j = 11 THEN status ELSE Field]) \o NL

WellFormedLines == { CatalogLine(p, st, 11) : p \in Paths, st \in {StatusA, StatusU} }
ShortLines == { CatalogLine(<<"s", "/", "a">>, StatusA, 10),
                CatalogLine(<<"s", "/", "a">>, StatusA, 5) }
CatalogLines == WellFormedLines \cup ShortLines

\* a storage dump line: a path and its terminator, or an empty line; only the
\* last line of a file can lack its terminator
StorageLines == { p \o NL : p \in Paths } \cup Paths \cup {NL}
StorageDumps(n) ==
    { f \in [1..n -> StorageLines] : \A j \in 1..(n - 1) : f[j][Len(f[j])] = "\n" }

----------------------------------------------------------------------------
(* consistencycheck/consistency_check.py: the two engine variants, each as *)
(* the function of the three dumps it computes.  A result is               *)
(* [raised, missing_files, dark_files]; raised means an IndexError left    *)
(* the function and nothing was returned.                                  *)

Raised == [raised |-> TRUE, missing_files |-> <<>>, dark_files |-> <<>>]

\* a file's content, from its lines
RECURSIVE Content(_)
Content(lines) == IF lines = <<>> THEN <<>> ELSE Head(lines) \o Content(Tail(lines))

\* ALGORITHM 2, pass 1 over the first n lines: [raised, out]
RECURSIVE faster_before(_, _)
faster_before(dump, n) ==
    IF n = 0 THEN [raised |-> FALSE, out |-> <<>>]
    ELSE LET prev == faster_before(dump, n - 1)
             parts == split(strip(dump[n]))
         IN  IF prev.raised \/ Len(parts) < 11 THEN [raised |-> TRUE, out |-> <<>>]
             ELSE LET key == parts[8] \o NL
                      o16 == setitem(prev.out, key, 16)
                  IN  [raised |-> FALSE,
                       out |-> IF parts[11] = StatusA
                               THEN setitem(o16, key, getitem(o16, key) + 2)
                               ELSE o16]

\* ALGORITHM 2, pass 2 over the first n lines, from the dict d
RECURSIVE faster_rse(_, _, _)
faster_rse(d, dump, n) ==
    IF n = 0 THEN d
    ELSE LET prev == faster_rse(d, dump, n - 1)
             line == dump[n]
         IN  IF contains(prev, line)
             THEN setitem(prev, line, getitem(prev, line) + 8)
             ELSE setitem(prev, line, 8)

\* ALGORITHM 2, pass 3 over the first n lines, from the dict d: [raised, out]
RECURSIVE faster_after(_, _, _)
faster_after(d, dump, n) ==
    IF n = 0 THEN [raised |-> FALSE, out |-> d]
    ELSE LET prev == faster_after(d, dump, n - 1)
             parts == split(strip(dump[n]))
         IN  IF prev.raised \/ Len(parts) < 8 THEN [raised |-> TRUE, out |-> <<>>]
             ELSE LET key == parts[8] \o NL
                  IN  IF contains(prev.out, key)
                      THEN IF Len(parts) < 11 THEN [raised |-> TRUE, out |-> <<>>]
                           ELSE LET o4 == setitem(prev.out, key, getitem(prev.out, key) + 4)
                                IN  [raised |-> FALSE,
                                     out |-> IF parts[11] = StatusA
                                             THEN setitem(o4, key, getitem(o4, key) + 1)
                                             ELSE o4]
                      ELSE [raised |-> FALSE, out |-> setitem(prev.out, key, 4)]

consistency_check_faster(before, rse, after) ==
    LET p1 == faster_before(before, Len(before))
    IN  IF p1.raised THEN Raised
        ELSE LET p3 == faster_after(faster_rse(p1.out, rse, Len(rse)), after, Len(after))
             IN  IF p3.raised THEN Raised
                 ELSE [raised |-> FALSE,
                       missing_files |-> keys_with(p3.out, 23),
                       dark_files |-> keys_with(p3.out, 8)]

\* prepare_rse_dump: readlines() of the file
prepare_rse_dump(dump) == readlines(Content(dump))

\* prepare_rucio_dump over the first n lines: [raised, keys, statuses]
RECURSIVE prepare_rucio_dump(_, _)
prepare_rucio_dump(dump, n) ==
    IF n = 0 THEN [raised |-> FALSE, keys |-> <<>>, statuses |-> <<>>]
    ELSE LET prev == prepare_rucio_dump(dump, n - 1)
             parts == split(dump[n])
         IN  IF prev.raised \/ Len(parts) < 11
             THEN [raised |-> TRUE, keys |-> <<>>, statuses |-> <<>>]
             ELSE [raised |-> FALSE,
                   keys |-> Append(prev.keys, parts[8] \o NL),
                   statuses |-> Append(prev.statuses, parts[11])]

\* ALGORITHM 1, the loop over rucio_dump_before: after n keys, [out, i]
RECURSIVE fast_before(_, _)
fast_before(rucio_dump, n) ==
    IF n = 0 THEN [out |-> <<>>, i |-> 0]
    ELSE LET prev == fast_before(rucio_dump, n - 1)
             k == rucio_dump.keys[n]
             o16 == setitem(prev.out, k, 16)
         IN  [out |-> IF rucio_dump.statuses[prev.i + 1] = StatusA
                      THEN setitem(o16, k, getitem(o16, k) + 2)
                      ELSE o16,
              i |-> prev.i + 1]

\* ALGORITHM 1, the loop over rse_dump, from the dict d
RECURSIVE fast_rse(_, _, _)
fast_rse(d, dump, n) ==
    IF n = 0 THEN d
    ELSE LET prev == fast_rse(d, dump, n - 1)
             k == dump[n]
         IN  IF contains(prev, k)
             THEN setitem(prev, k, getitem(prev, k) + 8)
             ELSE setitem(prev, k, 8)

\* fast_after with a key that is new in pass 3 entered as 4, plus 1 if its
\* status is A, instead of 4 whatever its status
RECURSIVE fast_after_counting_status(_, _, _, _)
fast_after_counting_status(d, i0, rucio_dump, n) ==
    IF n = 0 THEN [out |-> d, i |-> i0]
    ELSE LET prev == fast_after_counting_status(d, i0, rucio_dump, n - 1)
             k == rucio_dump.keys[n]
             o4 == IF contains(prev.out, k)
                   THEN setitem(prev.out, k, getitem(prev.out, k) + 4)
                   ELSE setitem(prev.out, k, 4)
         IN  [out |-> IF rucio_dump.statuses[prev.i + 1] = StatusA
                      THEN setitem(o4, k, getitem(o4, k) + 1)
                      ELSE o4,
              i |-> prev.i + 1]

\* ALGORITHM 1, the loop over rucio_dump_after, from the dict d and the index
\* i0 it starts with: after n keys, [out, i]
RECURSIVE fast_after(_, _, _, _)
fast_after(d, i0, rucio_dump, n) ==
    IF n = 0 THEN [out |-> d, i |-> i0]
    ELSE LET prev == fast_after(d, i0, rucio_dump, n - 1)
             k == rucio_dump.keys[n]
         IN  [out |-> IF contains(prev.out, k)
                      THEN LET o4 == setitem(prev.out, k, getitem(prev.out, k) + 4)
                           IN  IF rucio_dump.statuses[prev.i + 1] = StatusA
                               THEN setitem(o4, k, getitem(o4, k) + 1)
                               ELSE o4
                      ELSE setitem(prev.out, k, 4),
              i |-> prev.i + 1]

consistency_check_fast(before, rse, after) ==
    LET rucio_dump_before_ == prepare_rucio_dump(before, Len(before))
    IN  IF rucio_dump_before_.raised THEN Raised
        ELSE LET p1 == fast_before(rucio_dump_before_, Len(rucio_dump_before_.keys))
                 rse_dump_ == prepare_rse_dump(rse)
                 p2 == fast_rse(p1.out, rse_dump_, Len(rse_dump_))
                 rucio_dump_after_ == prepare_rucio_dump(after, Len(after))
             IN  IF rucio_dump_after_.raised THEN Raised
                 ELSE LET p3 == fast_after(p2, 0, rucio_dump_after_,
                                           Len(rucio_dump_after_.keys))
                      IN  [raised |-> FALSE,
                           missing_files |-> keys_with(p3.out, 23),
                           dark_files |-> keys_with(p3.out, 8)]

----------------------------------------------------------------------------
(* One run of generic_auditor: consistency_check reads the three cached    *)
(* dumps line by line, then the result file is written.                    *)

VARIABLES
    rucio_dump_before,  \* the lines of the cached catalog dump taken before
    rse_dump,           \* the lines of the cached storage dump
    rucio_dump_after,   \* the lines of the cached catalog dump taken after
    pc,                 \* where the run is
    pos,                \* lines read of the open dump, or entries written
    out,                \* consistency_check's dict of tallies
    missing_files,      \* consistency_check's results
    dark_files,
    file_results,       \* the file at results_path: [exists, data]
    results_bz2,        \* the file at results_path + '.bz2': [exists, data]
    keep_dumps,         \* generic_auditor's argument
    cache               \* the cached dump copies that exist in cache_dir

VARIABLES
    run                 \* the calls of consistency_check_faster, by thread

VARIABLES
    rses_names,         \* run_once: the names of the RSEs to audit
    profile,            \* run_once's argument
    algorithm,          \* run_once's argument
    once_pc,            \* where run_once is
    rse_index,          \* the iterations of its loop over rses_names begun
    started             \* the positions in rses_names of the RSEs it called the profile for

VARIABLES
    call,               \* output.py: the function called
    po_pc,              \* where the call is
    sanity_check,       \* process_output's arguments
    compress,
    usage_files,        \* get_rse_usage(...)[0]['files']
    lines_read,         \* the lines of the result file read so far
    dark_replicas,      \* process_output's two lists
    missing_replicas,
    chunk_size,         \* bz2_compress_file's argument
    plain_offset        \* the characters of the source file read so far

VARIABLES
    fo_pc,              \* fetch_object_store: where the call is
    date,               \* its argument and local: a day, or NoDate for None
    tries,              \* its local
    fetched_path,       \* its local path: the day whose dump file path names
    cache_dir           \* the days whose dump file exists in cache_dir

VARIABLES
    gn_pc,              \* get_newest_dump: where the call is
    links,              \* its argument
    link_index,         \* the links its loop has taken
    times,              \* its local list of (link, time)
    newest              \* what it returns

VARIABLES
    run_pc,             \* auditor_qt.run: where the call is
    threads,            \* its argument
    thread_list,        \* its list of threads: "initial", "alive" or "dead"
    join_index          \* the threads started, or joined in this round

VARIABLES
    graceful_stop,      \* conveyor/consumer.py: the module's Event, set or not
    main_pc,            \* where its run() is
    total_threads,      \* run's argument
    consumer_threads,   \* run's list threads: for each thread, where
                        \* consumer() is and the state of its connections
    main_index          \* the threads run() has started, or visited in this round of joins

fetch_vars == <<fo_pc, date, tries, fetched_path, cache_dir>>

newest_vars == <<gn_pc, links, link_index, times, newest>>

threads_vars == <<run_pc, threads, thread_list, join_index>>

consumer_vars == <<graceful_stop, main_pc, total_threads, consumer_threads, main_index>>

\* the state of the functions that fetch the dumps and of the two run()
daemon_vars == <<fetch_vars, newest_vars, threads_vars, consumer_vars>>

runs_vars == <<run>>

once_vars == <<rses_names, profile, algorithm, once_pc, rse_index, started>>

output_vars == <<call, po_pc, sanity_check, compress, usage_files, lines_read,
                 dark_replicas, missing_replicas, chunk_size, plain_offset>>

vars == <<rucio_dump_before, rse_dump, rucio_dump_after, pc, pos, out,
          missing_files, dark_files, file_results, results_bz2, keep_dumps, cache,
          runs_vars, once_vars, output_vars, daemon_vars>>

dumps == <<rucio_dump_before, rse_dump, rucio_dump_after>>

\* what no step of consistency_check and of the writing of the result file
\* changes
untouched == <<results_bz2, keep_dumps, runs_vars, once_vars, output_vars, daemon_vars>>

\* cached_dumps: the three copies fetch_rse_dump and fetch_rucio_dump made
cached_dumps == {"rucio_dump_before", "rse_dump", "rucio_dump_after"}

\* a file that does not exist
NoFile == [exists |-> FALSE, data |-> <<>>]

\* no thread has called consistency_check_faster
RunsIdle == run = <<>>

\* run_once is not called
OnceIdle ==
    /\ rses_names = <<>>
    /\ profile = "generic"
    /\ algorithm = "reliable"
    /\ once_pc = "idle"
    /\ rse_index = 0
    /\ started = {}

\* no function of output.py is called
OutputIdle ==
    /\ call = "none"
    /\ po_pc = "idle"
    /\ sanity_check = TRUE
    /\ compress = TRUE
    /\ usage_files = 0
    /\ lines_read = 0
    /\ dark_replicas = <<>>
    /\ missing_replicas = <<>>
    /\ chunk_size = 0
    /\ plain_offset = 0

\* date is None
NoDate == -1

\* fetch_object_store is not called
FetchIdle ==
    /\ fo_pc = "idle"
    /\ date = NoDate
    /\ tries = 0
    /\ fetched_path = NoDate
    /\ cache_dir = {}

\* get_newest_dump is not called
NewestIdle ==
    /\ gn_pc = "idle"
    /\ links = <<>>
    /\ link_index = 0
    /\ times = <<>>
    /\ newest = <<>>

\* auditor_qt.run is not called
ThreadsIdle ==
    /\ run_pc = "idle"
    /\ threads = 0
    /\ thread_list = <<>>
    /\ join_index = 0

\* the conveyor consumer is not started
ConsumerIdle ==
    /\ graceful_stop = FALSE
    /\ main_pc = "idle"
    /\ total_threads = 0
    /\ consumer_threads = <<>>
    /\ main_index = 0

DaemonsIdle == FetchIdle /\ NewestIdle /\ ThreadsIdle /\ ConsumerIdle

\* generic_auditor is not called
AuditorIdle ==
    /\ rucio_dump_before = <<>>
    /\ rse_dump = <<>>
    /\ rucio_dump_after = <<>>
    /\ pc = "idle"
    /\ pos = 0
    /\ out = <<>>
    /\ missing_files = <<>>
    /\ dark_files = <<>>
    /\ keep_dumps = FALSE
    /\ cache = {}

\* a run of generic_auditor with no earlier result for its RSE and date, at
\* its call of consistency_check
Init ==
    /\ \E nb \in 0..MaxLines : \E nr \in 0..(MaxLines - nb) :
         \E na \in 0..(MaxLines - nb - nr) :
           /\ rucio_dump_before \in [1..nb -> CatalogLines]
           /\ rse_dump \in StorageDumps(nr)
           /\ rucio_dump_after \in [1..na -> CatalogLines]
    /\ pc = "before"
    /\ pos = 0
    /\ out = <<>>
    /\ missing_files = <<>>
    /\ dark_files = <<>>
    /\ file_results = NoFile
    /\ results_bz2 = NoFile
    /\ keep_dumps = FALSE
    /\ cache = cached_dumps
    /\ RunsIdle
    /\ OnceIdle
    /\ OutputIdle
    /\ DaemonsIdle

\* ReadBefore with the 16 of a line added to the tally its key has already
ReadBefore_accumulating ==
    /\ pc = "before"
    /\ pos < Len(rucio_dump_before)
    /\ pos' = pos + 1
    /\ LET line == rucio_dump_before[pos + 1]
           parts == split(strip(line))
       IN  IF Len(parts) < 8
           THEN /\ pc' = "raised"
                /\ out' = out
           ELSE LET key == parts[8] \o NL
                    o16 == IF contains(out, key)
                           THEN setitem(out, key, getitem(out, key) + 16)
                           ELSE setitem(out, key, 16)
                IN  IF Len(parts) < 11
                    THEN /\ pc' = "raised"
                         /\ out' = o16
                    ELSE /\ pc' = pc
                         /\ out' = IF parts[11] = StatusA
                                   THEN setitem(o16, key, getitem(o16, key) + 2)
                                   ELSE o16
    /\ UNCHANGED <<untouched, cache, dumps, missing_files, dark_files, file_results>>

\* pass 1, one line of the catalog dump taken before
ReadBefore ==
    /\ pc = "before"
    /\ pos < Len(rucio_dump_before)
    /\ pos' = pos + 1
    /\ LET line == rucio_dump_before[pos + 1]
           parts == split(strip(line))
       IN  IF Len(parts) < 8
           THEN /\ pc' = "raised"
                /\ out' = out
           ELSE LET key == parts[8] \o NL
                    o16 == setitem(out, key, 16)
                IN  IF Len(parts) < 11
                    THEN /\ pc' = "raised"
                         /\ out' = o16
                    ELSE /\ pc' = pc
                         /\ out' = IF parts[11] = StatusA
                                   THEN setitem(o16, key, getitem(o16, key) + 2)
                                   ELSE o16
    /\ UNCHANGED <<untouched, cache, dumps, missing_files, dark_files, file_results>>

EndBefore ==
    /\ pc = "before"
    /\ pos = Len(rucio_dump_before)
    /\ pc' = "rse"
    /\ pos' = 0
    /\ UNCHANGED <<untouched, cache, dumps, out, missing_files, dark_files, file_results>>

\* pass 2, one line of the storage dump
ReadRse ==
    /\ pc = "rse"
    /\ pos < Len(rse_dump)
    /\ pos' = pos + 1
    /\ LET line == rse_dump[pos + 1]
       IN  out' = IF contains(out, line)
                  THEN setitem(out, line, getitem(out, line) + 8)
                  ELSE setitem(out, line, 8)
    /\ UNCHANGED <<untouched, cache, dumps, pc, missing_files, dark_files, file_results>>

EndRse ==
    /\ pc = "rse"
    /\ pos = Len(rse_dump)
    /\ pc' = "after"
    /\ pos' = 0
    /\ UNCHANGED <<untouched, cache, dumps, out, missing_files, dark_files, file_results>>

\* pass 3, one line of the catalog dump taken after
ReadAfter ==
    /\ pc = "after"
    /\ pos < Len(rucio_dump_after)
    /\ pos' = pos + 1
    /\ LET line == rucio_dump_after[pos + 1]
           parts == split(strip(line))
       IN  IF Len(parts) < 8
           THEN /\ pc' = "raised"
                /\ out' = out
           ELSE LET key == parts[8] \o NL
                IN  IF contains(out, key)
                    THEN LET o4 == setitem(out, key, getitem(out, key) + 4)
                         IN  IF Len(parts) < 11
                             THEN /\ pc' = "raised"
                                  /\ out' = o4
                             ELSE /\ pc' = pc
                                  /\ out' = IF parts[11] = StatusA
                                            THEN setitem(o4, key, getitem(o4, key) + 1)
                                            ELSE o4
                    ELSE /\ pc' = pc
                         /\ out' = setitem(out, key, 4)
    /\ UNCHANGED <<untouched, cache, dumps, missing_files, dark_files, file_results>>

\* Return with every tally from 8 up classified as DARK
Return_dark_from_8 ==
    /\ pc = "after"
    /\ pos = Len(rucio_dump_after)
    /\ missing_files' = keys_with(out, 23)
    /\ dark_files' = SelectSeq([j \in 1..Len(out) |-> out[j].key],
                               LAMBDA k : getitem(out, k) >= 8)
    /\ pc' = "open"
    /\ UNCHANGED <<untouched, cache, dumps, pos, out, file_results>>

\* the classification, and consistency_check's return to generic_auditor
Return ==
    /\ pc = "after"
    /\ pos = Len(rucio_dump_after)
    /\ missing_files' = keys_with(out, 23)
    /\ dark_files' = keys_with(out, 8)
    /\ pc' = "open"
    /\ UNCHANGED <<untouched, cache, dumps, pos, out, file_results>>

\* open(results_path, 'w')
OpenResults ==
    /\ pc = "open"
    /\ file_results' = [exists |-> TRUE, data |-> <<>>]
    /\ pc' = "dark"
    /\ pos' = 0
    /\ UNCHANGED <<untouched, cache, dumps, out, missing_files, dark_files>>

LabelDark == <<"D", "A", "R", "K">>
LabelMissing == <<"M", "I", "S", "S", "I", "N", "G">>

WriteDark ==
    /\ pc = "dark"
    /\ pos < Len(dark_files)
    /\ file_results' =
           [file_results EXCEPT
               !.data = @ \o LabelDark \o replace(dark_files[pos + 1], "/", ",")]
    /\ pos' = pos + 1
    /\ UNCHANGED <<untouched, cache, dumps, pc, out, missing_files, dark_files>>

EndDark ==
    /\ pc = "dark"
    /\ pos = Len(dark_files)
    /\ pc' = "missing"
    /\ pos' = 0
    /\ UNCHANGED <<untouched, cache, dumps, out, missing_files, dark_files, file_results>>

WriteMissing ==
    /\ pc = "missing"
    /\ pos < Len(missing_files)
    /\ file_results' =
           [file_results EXCEPT
               !.data = @ \o LabelMissing \o replace(missing_files[pos + 1], "/", ",")]
    /\ pos' = pos + 1
    /\ UNCHANGED <<untouched, cache, dumps, pc, out, missing_files, dark_files>>

\* remove_cached_dumps(paths), on the set c of files in the cache
remove_cached_dumps(c, paths) == c \ paths

\* file_results.close(), the removal of the cached dumps unless they are
\* kept, and generic_auditor's return of results_path
CloseResults ==
    /\ pc = "missing"
    /\ pos = Len(missing_files)
    /\ pc' = "done"
    /\ cache' = IF keep_dumps THEN cache ELSE remove_cached_dumps(cache, cached_dumps)
    /\ UNCHANGED <<untouched, dumps, pos, out, missing_files, dark_files, file_results>>

Next ==
    \/ ReadBefore \/ EndBefore
    \/ ReadRse \/ EndRse
    \/ ReadAfter \/ Return
    \/ OpenResults
    \/ WriteDark \/ EndDark
    \/ WriteMissing \/ CloseResults

Spec == Init /\ [][Next]_vars

----------------------------------------------------------------------------
(* generic_auditor from its test for an earlier result, with the results   *)
(* directory in any state an earlier run or process_output can leave, and  *)
(* with a write to the result file that can fail.                          *)

\* the result files earlier runs for the RSE and date can have left
EarlierResults ==
    { NoFile,
      [exists |-> TRUE, data |-> <<>>],
      [exists |-> TRUE, data |-> LabelDark \o <<",", "b", "\n">>] }

\* the test for an earlier result, plain or compressed
already_done_plain_only == file_results.exists

already_done == file_results.exists \/ results_bz2.exists

InitAuditor ==
    /\ \E nb \in 0..MaxAuditLines : \E nr \in 0..(MaxAuditLines - nb) :
         \E na \in 0..(MaxAuditLines - nb - nr) :
           /\ rucio_dump_before \in [1..nb -> CatalogLines]
           /\ rse_dump \in StorageDumps(nr)
           /\ rucio_dump_after \in [1..na -> CatalogLines]
    /\ pc = "start"
    /\ pos = 0
    /\ out = <<>>
    /\ missing_files = <<>>
    /\ dark_files = <<>>
    /\ file_results \in EarlierResults
    /\ results_bz2 \in EarlierResults
    /\ keep_dumps \in BOOLEAN
    /\ cache = cached_dumps
    /\ RunsIdle
    /\ OnceIdle
    /\ OutputIdle
    /\ DaemonsIdle

\* SkipDone with the cached dumps left in the cache
SkipDone_keeping_dumps ==
    /\ pc = "start"
    /\ already_done
    /\ pc' = "skipped"
    /\ UNCHANGED <<untouched, cache, dumps, pos, out, missing_files, dark_files,
                   file_results>>

\* an earlier result exists: the check is skipped and results_path returned
SkipDone ==
    /\ pc = "start"
    /\ already_done
    /\ pc' = "skipped"
    /\ cache' = IF keep_dumps THEN cache ELSE remove_cached_dumps(cache, cached_dumps)
    /\ UNCHANGED <<untouched, dumps, pos, out, missing_files, dark_files, file_results>>

\* no earlier result: consistency_check is called
StartCheck ==
    /\ pc = "start"
    /\ ~already_done
    /\ pc' = "before"
    /\ UNCHANGED <<untouched, cache, dumps, pos, out, missing_files, dark_files,
                   file_results>>

\* file_results.write raises (the disk is full, say): the error leaves
\* generic_auditor, which handles none
WriteFails ==
    /\ \/ pc = "dark" /\ pos < Len(dark_files)
       \/ pc = "missing" /\ pos < Len(missing_files)
    /\ pc' = "write_failed"
    /\ UNCHANGED <<untouched, cache, dumps, pos, out, missing_files, dark_files,
                   file_results>>

NextAuditor ==
    \/ SkipDone \/ StartCheck
    \/ Next
    \/ WriteFails

SpecAuditor == InitAuditor /\ [][NextAuditor]_vars

----------------------------------------------------------------------------
(* auditor_qt.run_once: the loop that calls the profile once per RSE.      *)

\* run_once is given at most MaxRses RSEs
MaxRses == 3

RseNames == {"RSE1", "RSE2"}

\* PROFILE_MAP: for each profile name, the number of parameters of its
\* function (atlas_auditor, atlas_auditor_old, generic_auditor)
PROFILE_MAP == [atlas |-> 6, atlasOld |-> 6, generic |-> 7]

\* the keys of ALGORITHM_MAP that run_once is called with
ALGORITHM_MAP == {"reliable"}

\* the number of arguments run_once passes to the profile's function
Arguments == 8

\* what a call of the profile's function can end with once its body runs
Outcomes == {"returned", "RucioException", "IndexError"}

InitOnce ==
    /\ \E n \in 0..MaxRses : rses_names \in [1..n -> RseNames]
    /\ profile \in (DOMAIN PROFILE_MAP) \cup {"no_such_profile"}
    /\ algorithm \in ALGORITHM_MAP \cup {"no_such_algorithm"}
    /\ once_pc = "start"
    /\ rse_index = 0
    /\ started = {}
    /\ AuditorIdle
    /\ file_results = NoFile
    /\ results_bz2 = NoFile
    /\ RunsIdle
    /\ OutputIdle
    /\ DaemonsIdle

\* the lines before the loop: no RSE raises RSENotFound, an unknown profile
\* or algorithm name raises ValueError
Setup ==
    /\ once_pc = "start"
    /\ once_pc' = IF rses_names = <<>>
                     \/ profile \notin DOMAIN PROFILE_MAP
                     \/ algorithm \notin ALGORITHM_MAP
                  THEN "raised"
                  ELSE "loop"
    /\ UNCHANGED <<rses_names, profile, algorithm, rse_index, started>>
    /\ UNCHANGED <<dumps, pc, pos, out, missing_files, dark_files, file_results,
                   results_bz2, keep_dumps, cache, runs_vars, output_vars, daemon_vars>>

\* one iteration of the loop: the call of the profile's function for the
\* next RSE.  A call with a number of arguments that is not the function's
\* number of parameters raises TypeError before the function's body runs;
\* of what a call raises, only RucioException is caught.
CallProfile ==
    /\ once_pc = "loop"
    /\ rse_index < Len(rses_names)
    /\ rse_index' = rse_index + 1
    /\ started' = started \cup {rse_index + 1}
    /\ IF PROFILE_MAP[profile] = Arguments
       THEN \E outcome \in Outcomes :
                once_pc' = IF outcome \in {"returned", "RucioException"}
                           THEN "loop"
                           ELSE "raised"
       ELSE once_pc' = "raised"
    /\ UNCHANGED <<rses_names, profile, algorithm>>
    /\ UNCHANGED <<dumps, pc, pos, out, missing_files, dark_files, file_results,
                   results_bz2, keep_dumps, cache, runs_vars, output_vars, daemon_vars>>

\* The lines after the loop (166-170) are not reached: with no RSE run_once
\* raises before the loop, and each profile's function has fewer parameters
\* than the call passes.
NextOnce == Setup \/ CallProfile

SpecOnce == InitOnce /\ [][NextOnce]_vars

----------------------------------------------------------------------------
(* consistency_check_faster called by the threads of one process, each     *)
(* call with its own three dumps, a thread calling again when its call     *)
(* has ended: the steps of the calls interleave, one line read at a step.  *)

\* The three dumps of one call hold at most MaxRunLines lines together.
MaxRunLines == 2

Threads == {"t1", "t2"}

\* the lines of these dumps: the record of one available file, and the
\* storage line of that file
RunCatalogLines == { CatalogLine(<<"/", "b">>, StatusA, 11) }
RunStorageLines == { <<"/", "b">> \o NL }

\* the dumps a call can be given: [before, rse, after]
RunInputs ==
    UNION { UNION { UNION {
        [before : [1..nb -> RunCatalogLines],
         rse : [1..nr -> RunStorageLines],
         after : [1..na -> RunCatalogLines]]
        : na \in 0..(MaxRunLines - nb - nr) }
        : nr \in 0..(MaxRunLines - nb) }
        : nb \in 0..MaxRunLines }

\* a thread that has not called yet
NotCalled ==
    [before |-> <<>>, rse |-> <<>>, after |-> <<>>, pc |-> "idle", pos |-> 0,
     again |-> FALSE, out |-> <<>>, missing_files |-> <<>>, dark_files |-> <<>>]

InitRuns ==
    /\ run = [t \in Threads |-> NotCalled]
    /\ AuditorIdle
    /\ file_results = NoFile
    /\ results_bz2 = NoFile
    /\ OnceIdle
    /\ OutputIdle
    /\ DaemonsIdle

\* a step of a call changes the locals of that call only
RunStep(t, locals) ==
    /\ run' = [run EXCEPT ![t] = locals]
    /\ UNCHANGED <<dumps, pc, pos, out, missing_files, dark_files, file_results,
                   results_bz2, keep_dumps, cache, once_vars, output_vars, daemon_vars>>

\* the call that starts with the dict of tallies the thread's last call left
faster_call_keeping_out(t) ==
    /\ run[t].pc \in {"idle", "returned", "raised"}
    /\ \E input \in RunInputs :
           RunStep(t, [before |-> input.before, rse |-> input.rse,
                       after |-> input.after, pc |-> "before", pos |-> 0,
                       again |-> run[t].pc # "idle",
                       out |-> run[t].out, missing_files |-> <<>>,
                       dark_files |-> <<>>])

\* the call, up to out = dict()
faster_call(t) ==
    /\ run[t].pc \in {"idle", "returned", "raised"}
    /\ \E input \in RunInputs :
           RunStep(t, [before |-> input.before, rse |-> input.rse,
                       after |-> input.after, pc |-> "before", pos |-> 0,
                       again |-> run[t].pc # "idle",
                       out |-> <<>>, missing_files |-> <<>>, dark_files |-> <<>>])

\* pass 1: one line of the catalog dump taken before, or its end
faster_pass1(t) ==
    LET my == run[t]
    IN  /\ my.pc = "before"
        /\ IF my.pos = Len(my.before)
           THEN RunStep(t, [my EXCEPT !.pc = "rse", !.pos = 0])
           ELSE LET parts == split(strip(my.before[my.pos + 1]))
                IN  IF Len(parts) < 8
                    THEN RunStep(t, [my EXCEPT !.pc = "raised", !.pos = @ + 1])
                    ELSE LET key == parts[8] \o NL
                             o16 == setitem(my.out, key, 16)
                         IN  IF Len(parts) < 11
                             THEN RunStep(t, [my EXCEPT !.pc = "raised", !.pos = @ + 1,
                                                        !.out = o16])
                             ELSE RunStep(t, [my EXCEPT
                                      !.pos = @ + 1,
                                      !.out = IF parts[11] = StatusA
                                              THEN setitem(o16, key, getitem(o16, key) + 2)
                                              ELSE o16])

\* pass 2: one line of the storage dump, or its end
faster_pass2(t) ==
    LET my == run[t]
    IN  /\ my.pc = "rse"
        /\ IF my.pos = Len(my.rse)
           THEN RunStep(t, [my EXCEPT !.pc = "after", !.pos = 0])
           ELSE LET line == my.rse[my.pos + 1]
                IN  RunStep(t, [my EXCEPT
                        !.pos = @ + 1,
                        !.out = IF contains(my.out, line)
                                THEN setitem(my.out, line, getitem(my.out, line) + 8)
                                ELSE setitem(my.out, line, 8)])

\* pass 3: one line of the catalog dump taken after, or its end
faster_pass3(t) ==
    LET my == run[t]
    IN  /\ my.pc = "after"
        /\ IF my.pos = Len(my.after)
           THEN RunStep(t, [my EXCEPT !.pc = "classify", !.pos = 0])
           ELSE LET parts == split(strip(my.after[my.pos + 1]))
                IN  IF Len(parts) < 8
                    THEN RunStep(t, [my EXCEPT !.pc = "raised", !.pos = @ + 1])
                    ELSE LET key == parts[8] \o NL
                         IN  IF contains(my.out, key)
                             THEN LET o4 == setitem(my.out, key, getitem(my.out, key) + 4)
                                  IN  IF Len(parts) < 11
                                      THEN RunStep(t, [my EXCEPT !.pc = "raised",
                                                                 !.pos = @ + 1, !.out = o4])
                                      ELSE RunStep(t, [my EXCEPT
                                               !.pos = @ + 1,
                                               !.out = IF parts[11] = StatusA
                                                       THEN setitem(o4, key, getitem(o4, key) + 1)
                                                       ELSE o4])
                             ELSE RunStep(t, [my EXCEPT !.pos = @ + 1,
                                                        !.out = setitem(my.out, key, 4)])

\* the two lists, and the return
faster_return(t) ==
    LET my == run[t]
    IN  /\ my.pc = "classify"
        /\ RunStep(t, [my EXCEPT !.pc = "returned",
                                 !.missing_files = keys_with(my.out, 23),
                                 !.dark_files = keys_with(my.out, 8)])

NextRuns ==
    \E t \in Threads :
        \/ faster_call(t)
        \/ faster_pass1(t)
        \/ faster_pass2(t)
        \/ faster_pass3(t)
        \/ faster_return(t)

SpecRuns == InitRuns /\ [][NextRuns]_vars

----------------------------------------------------------------------------
(* The same run on a storage dump that lists one file many times.          *)

\* The storage dump repeats its line at most MaxCopies times.
MaxCopies == 32

InitDuplicates ==
    /\ \E nb \in 0..1 : rucio_dump_before \in [1..nb -> RunCatalogLines]
    /\ \E nr \in 0..MaxCopies : rse_dump = [j \in 1..nr |-> <<"/", "b">> \o NL]
    /\ \E na \in 0..1 : rucio_dump_after \in [1..na -> RunCatalogLines]
    /\ pc = "before"
    /\ pos = 0
    /\ out = <<>>
    /\ missing_files = <<>>
    /\ dark_files = <<>>
    /\ file_results = NoFile
    /\ results_bz2 = NoFile
    /\ keep_dumps = FALSE
    /\ cache = cached_dumps
    /\ RunsIdle
    /\ OnceIdle
    /\ OutputIdle
    /\ DaemonsIdle

SpecDuplicates == InitDuplicates /\ [][Next]_vars

----------------------------------------------------------------------------
(* output.py: process_output on a result file, and bz2_compress_file.      *)
(* The content of a .bz2 file is kept as the text that was written through *)
(* the compressor.                                                         *)

\* The result file given to process_output holds at most MaxResultLines
\* lines.
MaxResultLines == 2

\* lines of a result file: written by generic_auditor for the keys '/b\n',
\* '/a/f\n', '/user/x/f\n', 's/a\n' and 'b\n', and the MISSING line of '/b\n'
ResultFileLines ==
    { LabelDark \o <<",", "b", "\n">>,
      LabelMissing \o <<",", "b", "\n">>,
      LabelMissing \o <<",", "a", "/", "f", "\n">>,
      LabelDark \o <<",", "u", "s", "e", "r", "/", "x", "/", "f", "\n">>,
      LabelDark \o <<"s", ",", "a", "\n">>,
      LabelDark \o <<"b", "\n">> }

ResultFiles ==
    { [exists |-> TRUE, data |-> Content(lines)] :
          lines \in UNION { [1..n -> ResultFileLines] : n \in 0..MaxResultLines } }

\* the numbers of files get_rse_usage reports for the RSE
UsageFiles == {9, 10, 20}

\* the chunk sizes bz2_compress_file is called with: a small one, and its
\* default
ChunkSizes == {4, 65000}

\* s.split(sep, 1) for a one-character sep
split_at(s, sep) ==
    IF \E j \in 1..Len(s) : s[j] = sep
    THEN LET j == CHOOSE m \in 1..Len(s) :
                      s[m] = sep /\ \A n \in 1..(m - 1) : s[n] # sep
         IN  <<SubSeq(s, 1, j - 1), SubSeq(s, j + 1, Len(s))>>
    ELSE <<s>>

\* s.split(sep) for a one-character sep
RECURSIVE str_split(_, _)
str_split(s, sep) ==
    LET first == split_at(s, sep)
    IN  IF Len(first) = 1 THEN first
        ELSE <<first[1]>> \o str_split(first[2], sep)

\* Python's None, which no text equals
None == <<"None">>

\* InternalScope(scope)
InternalScope(scope) == [external |-> scope]

guess_replica_info(path) ==
    LET items == str_split(path, "/")
    IN  IF Len(items) = 1
        THEN [scope |-> None, name |-> path]
        ELSE IF Len(items) > 2
                /\ items[1] \in { <<"g", "r", "o", "u", "p">>, <<"u", "s", "e", "r">> }
             THEN [scope |-> items[1] \o <<".">> \o items[2], name |-> items[Len(items)]]
             ELSE [scope |-> items[1], name |-> items[Len(items)]]

\* config_get_float('auditor', 'threshold', False, 0.1): the default, 1/10
threshold == [num |-> 1, den |-> 10]

\* found_error taken from the number of DARK entries alone
found_error_dark_only(dark, missing, files) ==
    Len(dark) * threshold.den > threshold.num * files

\* found_error: len(dark_replicas) or len(missing_replicas) is more than
\* threshold * usage['files']
found_error(dark, missing, files) ==
    \/ Len(dark) * threshold.den > threshold.num * files
    \/ Len(missing) * threshold.den > threshold.num * files

InitOutput ==
    /\ \/ /\ call = "process_output"
          /\ file_results \in ResultFiles \cup {NoFile}
          /\ results_bz2 = NoFile
          /\ sanity_check \in BOOLEAN
          /\ compress \in BOOLEAN
          /\ usage_files \in UsageFiles
          /\ chunk_size = 65000
       \/ /\ call = "bz2_compress_file"
          /\ file_results \in ResultFiles \cup {NoFile}
          /\ results_bz2 \in EarlierResults
          /\ sanity_check = TRUE
          /\ compress = TRUE
          /\ usage_files = 0
          /\ chunk_size \in ChunkSizes
    /\ po_pc = "start"
    /\ lines_read = 0
    /\ dark_replicas = <<>>
    /\ missing_replicas = <<>>
    /\ plain_offset = 0
    /\ AuditorIdle
    /\ RunsIdle
    /\ OnceIdle
    /\ DaemonsIdle

\* what the functions of output.py leave alone
beside_output ==
    <<dumps, pc, pos, out, missing_files, dark_files, keep_dumps, cache,
      runs_vars, once_vars, daemon_vars, call, sanity_check, compress, usage_files,
      chunk_size>>

\* process_output: open(results_path)
po_open ==
    /\ call = "process_output"
    /\ po_pc = "start"
    /\ po_pc' = IF file_results.exists THEN "read" ELSE "FileNotFoundError"
    /\ UNCHANGED <<beside_output, file_results, results_bz2, lines_read,
                   dark_replicas, missing_replicas, plain_offset>>

\* process_output: one line of the result file.  A line with no comma (the
\* unpacking fails) and a label that is neither DARK nor MISSING raise
\* ValueError, which is logged and raised again.
po_read_line ==
    /\ po_pc = "read"
    /\ lines_read < Len(readlines(file_results.data))
    /\ lines_read' = lines_read + 1
    /\ LET line == readlines(file_results.data)[lines_read + 1]
           fields == split_at(rstrip(line), ",")
       IN  IF Len(fields) < 2
           THEN /\ po_pc' = "ValueError"
                /\ UNCHANGED <<dark_replicas, missing_replicas>>
           ELSE LET label == fields[1]
                    path == fields[2]
                    info == guess_replica_info(path)
                IN  IF label = LabelDark
                    THEN /\ dark_replicas' =
                               Append(dark_replicas,
                                      [path |-> path,
                                       scope |-> InternalScope(info.scope),
                                       name |-> info.name])
                         /\ UNCHANGED <<po_pc, missing_replicas>>
                    ELSE IF label = LabelMissing
                    THEN /\ missing_replicas' =
                               Append(missing_replicas,
                                      [scope |-> InternalScope(info.scope),
                                       name |-> info.name])
                         /\ UNCHANGED <<po_pc, dark_replicas>>
                    ELSE /\ po_pc' = "ValueError"
                         /\ UNCHANGED <<dark_replicas, missing_replicas>>
    /\ UNCHANGED <<beside_output, file_results, results_bz2, plain_offset>>

\* process_output: the end of the file, and the sanity check
po_sanity ==
    /\ po_pc = "read"
    /\ lines_read = Len(readlines(file_results.data))
    /\ po_pc' = IF found_error(dark_replicas, missing_replicas, usage_files)
                   /\ sanity_check
                THEN "AssertionError"
                ELSE "actions"
    /\ UNCHANGED <<beside_output, file_results, results_bz2, lines_read,
                   dark_replicas, missing_replicas, plain_offset>>

\* po_missed_pfns with the result file compressed before the replicas are
\* looked up
po_compress_first ==
    /\ po_pc = "actions"
    /\ results_bz2' = [exists |-> TRUE, data |-> file_results.data]
    /\ file_results' = NoFile
    /\ po_pc' = "NameError"
    /\ UNCHANGED <<beside_output, lines_read, dark_replicas, missing_replicas,
                   plain_offset>>

\* process_output: the list of the PFNs of the missing replicas is built
\* from missed_replicas, a name that is bound nowhere in output.py (the list
\* filled above is missing_replicas): NameError.  The quarantine insertion,
\* the declaration, the compression and return True (lines 106-120) come
\* after this statement and are not reached.
po_missed_pfns ==
    /\ po_pc = "actions"
    /\ po_pc' = "NameError"
    /\ UNCHANGED <<beside_output, file_results, results_bz2, lines_read,
                   dark_replicas, missing_replicas, plain_offset>>

\* bz2_compress_file: open(source_path), then BZ2File(final_path, 'w')
bz2_open ==
    /\ call = "bz2_compress_file"
    /\ po_pc = "start"
    /\ IF file_results.exists
       THEN /\ results_bz2' = [exists |-> TRUE, data |-> <<>>]
            /\ po_pc' = "copy"
       ELSE /\ results_bz2' = results_bz2
            /\ po_pc' = "FileNotFoundError"
    /\ UNCHANGED <<beside_output, file_results, lines_read, dark_replicas,
                   missing_replicas, plain_offset>>

\* bz2_compress_file: one plain.read(chunk_size); an empty chunk ends the
\* loop and closes both files
bz2_chunk ==
    /\ po_pc = "copy"
    /\ LET last == IF plain_offset + chunk_size < Len(file_results.data)
                   THEN plain_offset + chunk_size
                   ELSE Len(file_results.data)
           chunk == SubSeq(file_results.data, plain_offset + 1, last)
       IN  IF chunk = <<>>
           THEN /\ po_pc' = "remove"
                /\ UNCHANGED <<results_bz2, plain_offset>>
           ELSE /\ results_bz2' = [results_bz2 EXCEPT !.data = @ \o chunk]
                /\ plain_offset' = last
                /\ po_pc' = po_pc
    /\ UNCHANGED <<beside_output, file_results, lines_read, dark_replicas,
                   missing_replicas>>

\* bz2_compress_file: os.remove(source_path), return final_path
bz2_remove ==
    /\ po_pc = "remove"
    /\ file_results' = NoFile
    /\ po_pc' = "returned"
    /\ UNCHANGED <<beside_output, results_bz2, lines_read, dark_replicas,
                   missing_replicas, plain_offset>>

NextOutput ==
    \/ po_open \/ po_read_line \/ po_sanity \/ po_missed_pfns
    \/ bz2_open \/ bz2_chunk \/ bz2_remove

SpecOutput == InitOutput /\ [][NextOutput]_vars

----------------------------------------------------------------------------
(* profiles/atlas_specific/dumps.py and rse_dumps.py: fetch_object_store,  *)
(* which tries the dump of one day after the other.  A day is a number,    *)
(* the day before day d is d - 1, and the file of cache_dir that path      *)
(* names is known by the day in its name.                                  *)

\* The cache holds at most MaxCached dump files when fetch_object_store is
\* called.
MaxCached == 2

\* datetime.now(): the day of the call
Now == 40

\* tries, for a call with a date and for a call with none
TriesWithDate == 30
TriesWithoutDate == 31

\* the days whose dump can be in the cache at the call
CachedDays == (Now - 3)..Now

\* the dates fetch_object_store is called with
GivenDates == {Now, Now - 1, NoDate}

\* how download(url, f) inside temp_file can end: the file is in the cache
\* under its final name, or one of the two exceptions that are caught, or
\* another one (protocol() raises RuntimeError for an unknown protocol)
Downloads == {"downloaded", "HTTPDownloadFailed", "GError", "RuntimeError"}

\* every variable but those of fetch_object_store
beside_fetch ==
    <<dumps, pc, pos, out, missing_files, dark_files, file_results, results_bz2,
      keep_dumps, cache, runs_vars, once_vars, output_vars, newest_vars,
      threads_vars, consumer_vars>>

BesideFetchIdle ==
    /\ AuditorIdle
    /\ file_results = NoFile
    /\ results_bz2 = NoFile
    /\ RunsIdle
    /\ OnceIdle
    /\ OutputIdle
    /\ NewestIdle
    /\ ThreadsIdle
    /\ ConsumerIdle

InitFetch ==
    /\ fo_pc = "start"
    /\ date \in GivenDates
    /\ tries = 0
    /\ fetched_path = NoDate
    /\ cache_dir \in { c \in SUBSET CachedDays : Cardinality(c) <= MaxCached }
    /\ BesideFetchIdle

\* tries = 30; if date is None: date = datetime.now(), tries = 31
fo_tries ==
    /\ fo_pc = "start"
    /\ IF date = NoDate
       THEN /\ date' = Now
            /\ tries' = TriesWithoutDate
       ELSE /\ date' = date
            /\ tries' = TriesWithDate
    /\ fo_pc' = "while"
    /\ UNCHANGED <<beside_fetch, fetched_path, cache_dir>>

\* while tries > 0, and return path, date when it is not
fo_while ==
    /\ fo_pc = "while"
    /\ fo_pc' = IF tries > 0 THEN "body" ELSE "returned"
    /\ UNCHANGED <<beside_fetch, date, tries, fetched_path, cache_dir>>

\* the body of the loop: path is made for date; if no file exists at path,
\* one download is tried.  When a file exists at path the body changes
\* neither tries nor date.
fo_body ==
    /\ fo_pc = "body"
    /\ fetched_path' = date
    /\ IF date \notin cache_dir
       THEN \E download \in Downloads :
                IF download = "downloaded"
                THEN /\ cache_dir' = cache_dir \cup {date}
                     /\ tries' = 0
                     /\ date' = date
                     /\ fo_pc' = "while"
                ELSE IF download \in {"HTTPDownloadFailed", "GError"}
                THEN /\ tries' = tries - 1
                     /\ date' = date - 1
                     /\ fo_pc' = "while"
                     /\ UNCHANGED cache_dir
                ELSE /\ fo_pc' = "raised"
                     /\ UNCHANGED <<tries, date, cache_dir>>
       ELSE /\ fo_pc' = "while"
            /\ UNCHANGED <<tries, date, cache_dir>>
    /\ UNCHANGED beside_fetch

NextFetch == fo_tries \/ fo_while \/ fo_body

SpecFetch == InitFetch /\ [][NextFetch]_vars

\* the same, with the call going on as long as it has a step to take
SpecFetchFair == SpecFetch /\ WF_vars(NextFetch)

----------------------------------------------------------------------------
(* dumps.py get_newest_dump and rse_dumps.py get_newest: the newest of the *)
(* links that datetime.strptime reads with the pattern                     *)
(* base_url/dump_%Y%m%d.  strptime is computed on the characters: the      *)
(* pattern is matched as the regular expression Python makes of it,        *)
(* without regard to case, each directive taking the first of its          *)
(* alternatives that lets the rest match; the whole link must be matched   *)
(* and the day must exist in the month.                                    *)

\* get_newest_dump is given at most MaxLinks links.
MaxLinks == 3

base_url == <<"u">>

\* the links of a listing: dumps of 2025-01-31 and 2025-02-01 (written
\* 2025021), one of 2024-12-31 in capitals, a second name of 2025-02-01, the
\* 30th of February, a dump name with a suffix, a dump of another
\* directory, and a file that is no dump
Links ==
    { <<"u", "/", "d", "u", "m", "p", "_", "2", "0", "2", "5", "0", "1", "3", "1">>,
      <<"u", "/", "d", "u", "m", "p", "_", "2", "0", "2", "5", "0", "2", "1">>,
      <<"U", "/", "D", "U", "M", "P", "_", "2", "0", "2", "4", "1", "2", "3", "1">>,
      <<"u", "/", "d", "u", "m", "p", "_", "2", "0", "2", "5", "2", "1">>,
      <<"u", "/", "d", "u", "m", "p", "_", "2", "0", "2", "5", "0", "2", "3", "0">>,
      <<"u", "/", "d", "u", "m", "p", "_", "2", "0", "2", "5", "0", "1", "3", "1", "x">>,
      <<"v", "/", "d", "u", "m", "p", "_", "2", "0", "2", "5", "0", "3", "0", "1">>,
      <<"u", "/", "x">> }

Digits == <<"0", "1", "2", "3", "4", "5", "6", "7", "8", "9">>

IsDigit(c) == \E j \in 1..10 : Digits[j] = c

DigitValue(c) == (CHOOSE j \in 1..10 : Digits[j] = c) - 1

\* int(s) for a text of digits, spaces skipped
RECURSIVE int(_)
int(s) ==
    IF s = <<>> THEN 0
    ELSE IF s[Len(s)] = " " THEN int(SubSeq(s, 1, Len(s) - 1))
    ELSE 10 * int(SubSeq(s, 1, Len(s) - 1)) + DigitValue(s[Len(s)])

\* the letter c in lower case, for the letters of the pattern
lower(c) ==
    CASE c = "U" -> "u"
      [] c = "D" -> "d"
      [] c = "M" -> "m"
      [] c = "P" -> "p"
      [] c = "V" -> "v"
      [] c = "X" -> "x"
      [] OTHER -> c

\* the text s begins with the literal text, case ignored
StartsWith(s, literal) ==
    /\ Len(s) >= Len(literal)
    /\ \A j \in 1..Len(literal) : lower(s[j]) = lower(literal[j])

\* the alternatives of %m, 1[0-2]|0[1-9]|[1-9], in their order: the length
\* of the text the n-th takes at the head of s, 0 if it does not match
MonthAlternative(s, n) ==
    CASE n = 1 -> IF Len(s) >= 2 /\ s[1] = "1" /\ s[2] \in {"0", "1", "2"} THEN 2 ELSE 0
      [] n = 2 -> IF Len(s) >= 2 /\ s[1] = "0" /\ IsDigit(s[2]) /\ s[2] # "0" THEN 2 ELSE 0
      [] n = 3 -> IF Len(s) >= 1 /\ IsDigit(s[1]) /\ s[1] # "0" THEN 1 ELSE 0

\* the alternatives of %d, 3[0-1]|[1-2]\d|0[1-9]|[1-9]| [1-9], likewise
DayAlternative(s, n) ==
    CASE n = 1 -> IF Len(s) >= 2 /\ s[1] = "3" /\ s[2] \in {"0", "1"} THEN 2 ELSE 0
      [] n = 2 -> IF Len(s) >= 2 /\ s[1] \in {"1", "2"} /\ IsDigit(s[2]) THEN 2 ELSE 0
      [] n = 3 -> IF Len(s) >= 2 /\ s[1] = "0" /\ IsDigit(s[2]) /\ s[2] # "0" THEN 2 ELSE 0
      [] n = 4 -> IF Len(s) >= 1 /\ IsDigit(s[1]) /\ s[1] # "0" THEN 1 ELSE 0
      [] n = 5 -> IF Len(s) >= 2 /\ s[1] = " " /\ IsDigit(s[2]) /\ s[2] # "0" THEN 2 ELSE 0

\* the first alternative of %d that matches at the head of s, 0 if none does
FirstDay(s) ==
    IF \E n \in 1..5 : DayAlternative(s, n) > 0
    THEN CHOOSE n \in 1..5 :
             DayAlternative(s, n) > 0 /\ \A m \in 1..(n - 1) : DayAlternative(s, m) = 0
    ELSE 0

\* the alternative of %m with which %m%d matches at the head of s: the first
\* one that is followed by a match of %d, 0 if there is none
FirstMonth(s) ==
    LET fits(n) == /\ MonthAlternative(s, n) > 0
                   /\ FirstDay(SubSeq(s, MonthAlternative(s, n) + 1, Len(s))) > 0
    IN  IF \E n \in 1..3 : fits(n)
        THEN CHOOSE n \in 1..3 : fits(n) /\ \A m \in 1..(n - 1) : ~fits(m)
        ELSE 0

IsLeap(year) == year % 4 = 0 /\ (year % 100 # 0 \/ year % 400 = 0)

DaysIn(year, month) ==
    IF month = 2 THEN (IF IsLeap(year) THEN 29 ELSE 28)
    ELSE IF month \in {4, 6, 9, 11} THEN 30 ELSE 31

\* what strptime raises for a text that the pattern does not read
ValueError == [year |-> 0, month |-> 0, day |-> 0]

\* datetime.strptime(data_string, base + '/dump_%Y%m%d')
strptime(data_string, base) ==
    LET literal == base \o <<"/", "d", "u", "m", "p", "_">>
        n == Len(literal)
    IN  IF ~StartsWith(data_string, literal) \/ Len(data_string) < n + 4
           \/ \E j \in (n + 1)..(n + 4) : ~IsDigit(data_string[j])
        THEN ValueError
        ELSE LET rest == SubSeq(data_string, n + 5, Len(data_string))
                 m == FirstMonth(rest)
             IN  IF m = 0 THEN ValueError
                 ELSE LET mlen == MonthAlternative(rest, m)
                          after == SubSeq(rest, mlen + 1, Len(rest))
                          dlen == DayAlternative(after, FirstDay(after))
                          year == int(SubSeq(data_string, n + 1, n + 4))
                          month == int(SubSeq(rest, 1, mlen))
                          day == int(SubSeq(after, 1, dlen))
                      IN  IF dlen < Len(after)          \* unconverted data remains
                             \/ year < 1
                             \/ day > DaysIn(year, month)
                          THEN ValueError
                          ELSE [year |-> year, month |-> month, day |-> day]

\* the order of two datetimes is the order of these numbers
Ordinal(time) == time.year * 10000 + time.month * 100 + time.day

\* max(times, key=operator.itemgetter(1)): the first of the entries whose
\* time is the greatest
max(list) ==
    list[CHOOSE j \in 1..Len(list) :
             /\ \A m \in 1..Len(list) : Ordinal(list[m].time) <= Ordinal(list[j].time)
             /\ \A m \in 1..(j - 1) : Ordinal(list[m].time) < Ordinal(list[j].time)]

beside_newest ==
    <<dumps, pc, pos, out, missing_files, dark_files, file_results, results_bz2,
      keep_dumps, cache, runs_vars, once_vars, output_vars, fetch_vars,
      threads_vars, consumer_vars>>

InitNewest ==
    /\ gn_pc = "loop"
    /\ \E n \in 0..MaxLinks : links \in [1..n -> Links]
    /\ link_index = 0
    /\ times = <<>>
    /\ newest = <<>>
    /\ AuditorIdle
    /\ file_results = NoFile
    /\ results_bz2 = NoFile
    /\ RunsIdle
    /\ OnceIdle
    /\ OutputIdle
    /\ FetchIdle
    /\ ThreadsIdle
    /\ ConsumerIdle

\* one link of the loop: strptime, and the link and its time appended unless
\* ValueError was raised
gn_link ==
    /\ gn_pc = "loop"
    /\ link_index < Len(links)
    /\ link_index' = link_index + 1
    /\ LET link == links[link_index + 1]
           time == strptime(link, base_url)
       IN  times' = IF time = ValueError
                    THEN times
                    ELSE Append(times, [link |-> link, time |-> time])
    /\ UNCHANGED <<beside_newest, gn_pc, links, newest>>

\* gn_return with the last of the entries returned
gn_return_last ==
    /\ gn_pc = "loop"
    /\ link_index = Len(links)
    /\ IF times = <<>>
       THEN /\ gn_pc' = "RuntimeError"
            /\ newest' = newest
       ELSE /\ gn_pc' = "returned"
            /\ newest' = times[Len(times)]
    /\ UNCHANGED <<beside_newest, links, link_index, times>>

\* after the loop: RuntimeError if times is empty, else the maximum
gn_return ==
    /\ gn_pc = "loop"
    /\ link_index = Len(links)
    /\ IF times = <<>>
       THEN /\ gn_pc' = "RuntimeError"
            /\ newest' = newest
       ELSE /\ gn_pc' = "returned"
            /\ newest' = max(times)
    /\ UNCHANGED <<beside_newest, links, link_index, times>>

NextNewest == gn_link \/ gn_return

SpecNewest == InitNewest /\ [][NextNewest]_vars

----------------------------------------------------------------------------
(* auditor_qt.run with once false: the worker threads are created and      *)
(* started, then joined in rounds for as long as the first of them is      *)
(* alive.  A worker ends when auditor_qt returns or raises.                *)

\* run is called with at most MaxThreads threads.
MaxThreads == 4

beside_threads ==
    <<dumps, pc, pos, out, missing_files, dark_files, file_results, results_bz2,
      keep_dumps, cache, runs_vars, once_vars, output_vars, fetch_vars,
      newest_vars, consumer_vars>>

InitThreads ==
    /\ run_pc = "start"
    /\ threads \in 0..MaxThreads
    /\ thread_list = <<>>
    /\ join_index = 0
    /\ AuditorIdle
    /\ file_results = NoFile
    /\ results_bz2 = NoFile
    /\ RunsIdle
    /\ OnceIdle
    /\ OutputIdle
    /\ FetchIdle
    /\ NewestIdle
    /\ ConsumerIdle

\* if threads < 1: raise RuntimeError; else the list of the threads
run_thread_list ==
    /\ run_pc = "start"
    /\ IF threads < 1
       THEN /\ run_pc' = "RuntimeError"
            /\ thread_list' = thread_list
       ELSE /\ run_pc' = "starting"
            /\ thread_list' = [i \in 1..threads |-> "initial"]
    /\ UNCHANGED <<beside_threads, threads, join_index>>

\* [thread.start() for thread in thread_list]: the next thread is started
run_start ==
    /\ run_pc = "starting"
    /\ join_index < threads
    /\ thread_list' = [thread_list EXCEPT ![join_index + 1] = "alive"]
    /\ join_index' = join_index + 1
    /\ run_pc' = IF join_index + 1 = threads THEN "while" ELSE run_pc
    /\ UNCHANGED <<beside_threads, threads>>

\* a worker thread ends
worker_ends(i) ==
    /\ i \in DOMAIN thread_list
    /\ thread_list[i] = "alive"
    /\ thread_list' = [thread_list EXCEPT ![i] = "dead"]
    /\ UNCHANGED <<beside_threads, run_pc, threads, join_index>>

\* while thread_list[0].is_alive(), and the return of run when it is not
run_while ==
    /\ run_pc = "while"
    /\ IF thread_list[1] = "alive"
       THEN /\ run_pc' = "join"
            /\ join_index' = 0
       ELSE /\ run_pc' = "returned"
            /\ join_index' = join_index
    /\ UNCHANGED <<beside_threads, threads, thread_list>>

\* thread.join(timeout=3.14) for the next thread of the list: the call
\* returns when the thread has ended or when the timeout has passed
run_join ==
    /\ run_pc = "join"
    /\ join_index < threads
    /\ join_index' = join_index + 1
    /\ run_pc' = IF join_index + 1 = threads THEN "while" ELSE run_pc
    /\ UNCHANGED <<beside_threads, threads, thread_list>>

NextThreads ==
    \/ run_thread_list \/ run_start \/ run_while \/ run_join
    \/ \E i \in 1..MaxThreads : worker_ends(i)

SpecThreads == InitThreads /\ [][NextThreads]_vars

----------------------------------------------------------------------------
(* daemons/conveyor/consumer.py: run() starts the consumer threads and     *)
(* joins them in rounds; each consumer() keeps its connections to the      *)
(* brokers connected until graceful_stop is set, then disconnects them.    *)
(* A thread is [pc, index, conns, disconnects]: where consumer() is, the   *)
(* connections its for loop has visited, the state of each connection,     *)
(* and the connections whose disconnect() it has called.                   *)

\* run is called with at most MaxConsumers threads.
MaxConsumers == 2

\* the brokers of the configuration, one connection for each
brokers == <<"broker1", "broker2">>

\* a thread that is created and not started
InitialThread ==
    [pc |-> "initial", index |-> 0, conns |-> [b \in 1..Len(brokers) |-> "new"],
     disconnects |-> {}]

beside_consumer ==
    <<dumps, pc, pos, out, missing_files, dark_files, file_results, results_bz2,
      keep_dumps, cache, runs_vars, once_vars, output_vars, fetch_vars,
      newest_vars, threads_vars>>

InitConsumer ==
    /\ graceful_stop = FALSE
    /\ main_pc = "start"
    /\ total_threads \in 0..MaxConsumers
    /\ consumer_threads = <<>>
    /\ main_index = 0
    /\ AuditorIdle
    /\ file_results = NoFile
    /\ results_bz2 = NoFile
    /\ RunsIdle
    /\ OnceIdle
    /\ OutputIdle
    /\ FetchIdle
    /\ NewestIdle
    /\ ThreadsIdle

\* stop(): graceful_stop.set(), at any moment
stop ==
    /\ main_pc # "start"
    /\ ~graceful_stop
    /\ graceful_stop' = TRUE
    /\ UNCHANGED <<beside_consumer, main_pc, total_threads, consumer_threads, main_index>>

\* run: threads = [threading.Thread(target=consumer, ...) for i in xrange(0, total_threads)]
main_threads ==
    /\ main_pc = "start"
    /\ consumer_threads' = [i \in 1..total_threads |-> InitialThread]
    /\ main_pc' = IF total_threads = 0 THEN "while" ELSE "starting"
    /\ UNCHANGED <<beside_consumer, graceful_stop, total_threads, main_index>>

\* run: [t.start() for t in threads], the next thread; consumer() makes its
\* connections and comes to its loop
main_start ==
    /\ main_pc = "starting"
    /\ main_index < total_threads
    /\ consumer_threads' = [consumer_threads EXCEPT ![main_index + 1].pc = "while"]
    /\ main_index' = main_index + 1
    /\ main_pc' = IF main_index + 1 = total_threads THEN "while" ELSE main_pc
    /\ UNCHANGED <<beside_consumer, graceful_stop, total_threads>>

\* run: while len(threads) > 0; nothing is ever taken from threads
main_while ==
    /\ main_pc = "while"
    /\ IF Len(consumer_threads) > 0
       THEN /\ main_pc' = "join"
            /\ main_index' = 0
       ELSE /\ main_pc' = "returned"
            /\ main_index' = main_index
    /\ UNCHANGED <<beside_consumer, graceful_stop, total_threads, consumer_threads>>

\* run: the next thread of the round; t.join(timeout=3.14) if it is alive,
\* which returns when the thread has ended or the timeout has passed
main_join ==
    /\ main_pc = "join"
    /\ main_index < total_threads
    /\ main_index' = main_index + 1
    /\ main_pc' = IF main_index + 1 = total_threads THEN "while" ELSE main_pc
    /\ UNCHANGED <<beside_consumer, graceful_stop, total_threads, consumer_threads>>

\* consumer: while not graceful_stop.is_set()
consumer_while(t) ==
    /\ t \in DOMAIN consumer_threads
    /\ consumer_threads[t].pc = "while"
    /\ consumer_threads' =
           [consumer_threads EXCEPT
               ![t].pc = IF graceful_stop THEN "disconnect" ELSE "for",
               ![t].index = 0]
    /\ UNCHANGED <<beside_consumer, graceful_stop, main_pc, total_threads, main_index>>

\* consumer: the next connection of 'for conn in conns', connected if it is
\* not; after the last one, time.sleep(1)
consumer_connect(t) ==
    LET thread == consumer_threads[t]
    IN  /\ t \in DOMAIN consumer_threads
        /\ thread.pc = "for"
        /\ consumer_threads' =
               IF thread.index < Len(thread.conns)
               THEN [consumer_threads EXCEPT
                        ![t].conns[thread.index + 1] = "connected",
                        ![t].index = thread.index + 1]
               ELSE [consumer_threads EXCEPT ![t].pc = "sleep"]
        /\ UNCHANGED <<beside_consumer, graceful_stop, main_pc, total_threads, main_index>>

\* a broker closes a connection
connection_lost(t, c) ==
    /\ t \in DOMAIN consumer_threads
    /\ consumer_threads[t].pc \in {"for", "sleep"}
    /\ consumer_threads[t].conns[c] = "connected"
    /\ consumer_threads' = [consumer_threads EXCEPT ![t].conns[c] = "lost"]
    /\ UNCHANGED <<beside_consumer, graceful_stop, main_pc, total_threads, main_index>>

\* consumer: the end of time.sleep(1)
consumer_sleep(t) ==
    /\ t \in DOMAIN consumer_threads
    /\ consumer_threads[t].pc = "sleep"
    /\ consumer_threads' = [consumer_threads EXCEPT ![t].pc = "while"]
    /\ UNCHANGED <<beside_consumer, graceful_stop, main_pc, total_threads, main_index>>

\* consumer: conn.disconnect() for the next connection, an exception of
\* which is passed over; after the last one consumer() returns
consumer_disconnect(t) ==
    LET thread == consumer_threads[t]
    IN  /\ t \in DOMAIN consumer_threads
        /\ thread.pc = "disconnect"
        /\ IF thread.index < Len(thread.conns)
           THEN \E raised \in BOOLEAN :
                    consumer_threads' =
                        [consumer_threads EXCEPT
                            ![t].conns[thread.index + 1] =
                                IF raised THEN @ ELSE "disconnected",
                            ![t].disconnects = @ \cup {thread.index + 1},
                            ![t].index = thread.index + 1]
           ELSE consumer_threads' = [consumer_threads EXCEPT ![t].pc = "done"]
        /\ UNCHANGED <<beside_consumer, graceful_stop, main_pc, total_threads, main_index>>

\* the steps of run()
MainStep == main_threads \/ main_start \/ main_while \/ main_join

\* the steps of the consumer thread t
ConsumerStep(t) ==
    \/ consumer_while(t) \/ consumer_connect(t)
    \/ consumer_sleep(t) \/ consumer_disconnect(t)

NextConsumer ==
    \/ stop
    \/ MainStep
    \/ \E t \in 1..MaxConsumers :
           \/ consumer_while(t) \/ consumer_connect(t)
           \/ consumer_sleep(t) \/ consumer_disconnect(t)
           \/ \E c \in 1..Len(brokers) : connection_lost(t, c)

SpecConsumer == InitConsumer /\ [][NextConsumer]_vars

\* the same, with run() and every started thread taking their steps
SpecConsumerFair ==
    /\ SpecConsumer
    /\ WF_vars(MainStep)
    /\ \A t \in 1..MaxConsumers : WF_vars(ConsumerStep(t))

----------------------------------------------------------------------------
(* What the claims speak of: the identifiers a dump holds and the          *)
(* identifiers a result names.  The identifier of a storage line or of a   *)
(* reported key is its text without surrounding whitespace; the identifier *)
(* of a catalog line is its eighth field.                                  *)

Range(s) == { s[j] : j \in 1..Len(s) }

Ident(text) == strip(text)

Idents(texts) == { Ident(t) : t \in Range(texts) }

CatalogIds(dump) ==
    { split(dump[j])[8] : j \in { m \in 1..Len(dump) : Len(split(dump[m])) >= 8 } }

\* the catalog dump holds a record of path p with status A
AvailableIn(dump, p) ==
    \E j \in 1..Len(dump) :
        LET parts == split(dump[j])
        IN  Len(parts) >= 11 /\ parts[8] = p /\ parts[11] = StatusA

\* a catalog dump line of fewer than 11 fields
IsShort(line) == Len(split(line)) < 11

WellFormed ==
    \A line \in Range(rucio_dump_before) \cup Range(rucio_dump_after) : ~IsShort(line)

\* each identifier occurs at most once in each of the three dumps
OncePerDump ==
    /\ \A j, m \in 1..Len(rucio_dump_before) :
           j # m => split(rucio_dump_before[j])[8] # split(rucio_dump_before[m])[8]
    /\ \A j, m \in 1..Len(rse_dump) : j # m => Ident(rse_dump[j]) # Ident(rse_dump[m])
    /\ \A j, m \in 1..Len(rucio_dump_after) :
           j # m => split(rucio_dump_after[j])[8] # split(rucio_dump_after[m])[8]

\* every line of the storage dump ends with its terminator
Terminated == \A line \in Range(rse_dump) : line[Len(line)] = "\n"

\* consistency_check has returned its two lists to generic_auditor
Returned == pc \in {"open", "dark", "missing", "done"}

\* what the claims call MISSING and DARK, computed from the dumps alone
ExpectedMissing ==
    { p \in CatalogIds(rucio_dump_before) :
          /\ AvailableIn(rucio_dump_before, p)
          /\ AvailableIn(rucio_dump_after, p)
          /\ p \notin Idents(rse_dump) }

ExpectedDark ==
    { p \in Idents(rse_dump) :
          p \notin CatalogIds(rucio_dump_before) \cup CatalogIds(rucio_dump_after) }

\* the result of consistency_check_faster on the dumps of this run
FasterResult == consistency_check_faster(rucio_dump_before, rse_dump, rucio_dump_after)

\* the result of consistency_check_fast on the dumps of this run
FastResult == consistency_check_fast(rucio_dump_before, rse_dump, rucio_dump_after)

----------------------------------------------------------------------------
\* C1: for dumps in which each identifier occurs at most once per dump (and
\* whose catalog lines all have their 11 fields), the engine returns as
\* MISSING exactly the identifiers available in both catalog dumps and absent
\* from the storage dump, and as DARK exactly the identifiers of the storage
\* dump that are in neither catalog dump.  An empty storage line is counted
\* here as holding the empty identifier, so that only the tallies decide.
C1_ExactSets ==
    (Returned /\ WellFormed /\ OncePerDump) =>
        /\ Idents(missing_files) = ExpectedMissing
        /\ Idents(dark_files) = ExpectedDark
        /\ ~FasterResult.raised
        /\ Idents(FasterResult.missing_files) = ExpectedMissing
        /\ Idents(FasterResult.dark_files) = ExpectedDark

\* C2: every identifier reported DARK occurs in the storage dump and in
\* neither catalog dump, duplicate lines allowed (stated for catalog dumps
\* whose lines all have their 11 fields).
C2_DarkOnlyInStorage ==
    (Returned /\ WellFormed) =>
        \A p \in Idents(dark_files) \cup Idents(FasterResult.dark_files) :
            /\ p \in Idents(rse_dump)
            /\ p \notin CatalogIds(rucio_dump_before)
            /\ p \notin CatalogIds(rucio_dump_after)

\* C3: every identifier reported MISSING occurs in no line of the storage
\* dump and has a status-A record in both catalog dumps, duplicate lines
\* allowed (stated for catalog dumps whose lines all have their 11 fields
\* and storage dumps whose lines all end with their terminator, where a key
\* and a line are equal exactly when they name the same identifier).
C3_MissingAvailableAbsent ==
    (Returned /\ WellFormed /\ Terminated) =>
        \A p \in Idents(missing_files) \cup Idents(FasterResult.missing_files) :
            /\ p \notin Idents(rse_dump)
            /\ AvailableIn(rucio_dump_before, p)
            /\ AvailableIn(rucio_dump_after, p)

\* the number of entries of a list that name the identifier p
Reports(list, p) == Cardinality({ j \in 1..Len(list) : Ident(list[j]) = p })

\* C4: an identifier that appears twice in the storage dump and in neither
\* catalog dump is reported DARK exactly once, by the streaming-map variant
\* and by the two-list variant (stated for storage dumps whose lines all end
\* with their terminator).
C4_DuplicateStorageDarkOnce ==
    (Returned /\ WellFormed /\ Terminated) =>
        \A p \in Idents(rse_dump) \ {<<>>} :
            ( /\ Reports(rse_dump, p) = 2
              /\ p \notin CatalogIds(rucio_dump_before)
              /\ p \notin CatalogIds(rucio_dump_after) )
            => /\ Reports(dark_files, p) = 1
               /\ Reports(FasterResult.dark_files, p) = 1
               /\ Reports(FastResult.dark_files, p) = 1

\* C5: for well-formed dumps, repeated identifiers included, the two-list
\* variant, the streaming-map variant and its copy in generic.py return the
\* same MISSING set and the same DARK set (compared when generic.py's copy
\* returns).
C5_VariantsAgree ==
    (pc = "open" /\ WellFormed) =>
        LET fast == FastResult
            faster == FasterResult
        IN  /\ ~fast.raised
            /\ ~faster.raised
            /\ Range(fast.missing_files) = Range(faster.missing_files)
            /\ Range(fast.dark_files) = Range(faster.dark_files)
            /\ Range(missing_files) = Range(faster.missing_files)
            /\ Range(dark_files) = Range(faster.dark_files)

\* C5's case: a finished run on well-formed dumps that repeat an identifier
\* within the storage dump and within a catalog dump, with an anomaly found
C5_Witness ==
    /\ pc = "done"
    /\ WellFormed
    /\ \E j, m \in 1..Len(rse_dump) : j # m /\ rse_dump[j] = rse_dump[m]
    /\ \E j, m \in 1..Len(rucio_dump_after) :
           j # m /\ split(rucio_dump_after[j])[8] = split(rucio_dump_after[m])[8]
    /\ dark_files # <<>>

\* the dump with its lines in the order f, a permutation of its indices
Permuted(dump, f) == [j \in 1..Len(dump) |-> dump[f[j]]]

\* the orders of a storage dump's lines that are files again: a line with
\* no terminator stays last
RsePermutations ==
    { f \in Permutations(1..Len(rse_dump)) :
          \A j \in 1..(Len(rse_dump) - 1) :
              LET line == rse_dump[f[j]] IN line[Len(line)] = "\n" }

\* C6: permuting the lines of the storage dump, or of the catalog dump taken
\* after, changes neither the DARK set nor the MISSING set (stated for
\* catalog dumps whose lines all have their 11 fields).
C6_OrderIndependent ==
    (Returned /\ WellFormed) =>
        /\ \A f \in RsePermutations :
               LET r == consistency_check_faster(
                            rucio_dump_before, Permuted(rse_dump, f), rucio_dump_after)
               IN  /\ Range(r.missing_files) = Range(missing_files)
                   /\ Range(r.dark_files) = Range(dark_files)
        /\ \A f \in Permutations(1..Len(rucio_dump_after)) :
               LET r == consistency_check_faster(
                            rucio_dump_before, rse_dump, Permuted(rucio_dump_after, f))
               IN  /\ Range(r.missing_files) = Range(missing_files)
                   /\ Range(r.dark_files) = Range(dark_files)

\* C7: a catalog dump line of fewer than 11 fields, in either catalog dump,
\* makes the run fail: consistency_check returns no result and
\* generic_auditor writes no result file.
C7_ShortLineFails ==
    (\E line \in Range(rucio_dump_before) \cup Range(rucio_dump_after) : IsShort(line))
        => /\ ~Returned
           /\ ~file_results.exists

\* the result-file lines the claim allows for a label and a reported key:
\* the label, a comma, the identifier with its first '/' replaced by a
\* comma, a terminator; for an identifier that begins with '/', also the
\* reading in which the replaced '/' is the comma after the label
ResultLines(label, k) ==
    { label \o <<",">> \o replace(Ident(k), "/", ",") \o NL }
    \cup (IF Ident(k) # <<>> /\ Head(Ident(k)) = "/"
          THEN { label \o replace(Ident(k), "/", ",") \o NL }
          ELSE {})

\* C8: the result file holds one line per anomaly, the DARK ones first, each
\* the label, a comma, the identifier with its first '/' replaced by a comma,
\* and one line terminator, whether or not the identifier begins with '/'
\* (stated for catalog dumps whose lines all have their 11 fields and
\* storage dumps whose lines all end with their terminator and name an
\* identifier, so that every reported key is an identifier and a terminator).
C8_ResultLineFormat ==
    (pc = "done" /\ WellFormed /\ Terminated /\ <<>> \notin Idents(rse_dump)) =>
        LET lines == readlines(file_results.data)
        IN  /\ Len(lines) = Len(dark_files) + Len(missing_files)
            /\ \A j \in 1..Len(dark_files) :
                   lines[j] \in ResultLines(LabelDark, dark_files[j])
            /\ \A j \in 1..Len(missing_files) :
                   lines[Len(dark_files) + j] \in ResultLines(LabelMissing, missing_files[j])

\* C9: a path that a storage line and a catalog record both name is never
\* reported DARK, whatever terminator or whitespace ends the storage line
\* (stated for catalog dumps whose lines all have their 11 fields).
C9_TerminatorIgnored ==
    (Returned /\ WellFormed) =>
        \A line \in Range(rse_dump) :
            ( /\ Ident(line) # <<>>
              /\ Ident(line) \in CatalogIds(rucio_dump_before) \cup CatalogIds(rucio_dump_after) )
            => Ident(line) \notin Idents(dark_files)

\* C10: an empty line of the storage dump creates no entry in the
\* reconciliation state and is never reported DARK.
C10_EmptyLineIgnored ==
    /\ \A j \in 1..Len(out) : Ident(out[j].key) # <<>>
    /\ \A k \in Range(dark_files) : Ident(k) # <<>>

----------------------------------------------------------------------------
(* The result file and the return of generic_auditor.                      *)

\* generic_auditor has returned results_path
ReturnedPath == pc \in {"done", "skipped"}

\* C11: when a write to the result file fails after the file was opened, no
\* file is left at results_path (a later run for the same RSE and date
\* would find it and skip the check as already done).
C11_NoPartialFile ==
    pc = "write_failed" => ~file_results.exists

\* what generic_auditor writes for the two lists of a run
RECURSIVE ResultEntries(_, _)
ResultEntries(label, list) ==
    IF list = <<>> THEN <<>>
    ELSE label \o replace(Head(list), "/", ",") \o ResultEntries(label, Tail(list))

ResultData(dark, missing) ==
    ResultEntries(LabelDark, dark) \o ResultEntries(LabelMissing, missing)

\* C12, as claimed: when a result file exists already at results_path, after
\* a normal return the file holds the anomalies of the dumps of this run
\* (stated for catalog dumps whose lines all have their 11 fields).
C12_Overwrites ==
    (pc = "skipped" /\ file_results.exists /\ WellFormed) =>
        LET r == FasterResult
        IN  file_results.data = ResultData(r.dark_files, r.missing_files)

\* C12, amended: when a result file exists already, plain or compressed,
\* generic_auditor returns without a consistency check and leaves both
\* files as they are; when none exists, the file of a run that returns holds
\* the anomalies that run computed.
C12_KeepsEarlierResult ==
    /\ [][ (pc = "start" /\ (file_results.exists \/ results_bz2.exists))
             => (pc' = "skipped" /\ UNCHANGED <<file_results, results_bz2, out>>) ]_vars
    /\ [](pc = "done" =>
             /\ file_results.exists
             /\ file_results.data = ResultData(dark_files, missing_files))

\* C12's case: a return that left an earlier, empty result file in place
\* although the dumps of this run hold a DARK file
C12_Witness ==
    /\ pc = "skipped"
    /\ file_results.exists
    /\ file_results.data = <<>>
    /\ WellFormed
    /\ FasterResult.dark_files # <<>>

\* C13: whenever generic_auditor returns normally, a file exists at the path
\* it returns, results_path.
C13_ReturnedPathExists ==
    ReturnedPath => file_results.exists

----------------------------------------------------------------------------
\* C14: in run_once, when the call for one RSE fails, the calls for all the
\* RSEs after it in the list are still made.
C14_RemainingStarted ==
    (once_pc = "raised" /\ rse_index >= 1) =>
        \A m \in (rse_index + 1)..Len(rses_names) : m \in started

----------------------------------------------------------------------------
\* C15: the two lists a call of consistency_check_faster returns are those
\* of its three dumps alone, whatever the thread called before and whatever
\* the other thread's call, on other dumps, does in between; two calls on
\* the same dumps return the same lists.
C15_DependsOnInputsOnly ==
    /\ \A t \in Threads :
           run[t].pc = "returned" =>
               LET r == consistency_check_faster(run[t].before, run[t].rse, run[t].after)
               IN  /\ ~r.raised
                   /\ run[t].missing_files = r.missing_files
                   /\ run[t].dark_files = r.dark_files
    /\ \A t, u \in Threads :
           ( /\ run[t].pc = "returned" /\ run[u].pc = "returned"
             /\ run[t].before = run[u].before
             /\ run[t].rse = run[u].rse
             /\ run[t].after = run[u].after )
           => /\ run[t].missing_files = run[u].missing_files
              /\ run[t].dark_files = run[u].dark_files

\* C15's case: a thread's later call has returned a DARK entry, while the
\* other thread is within its passes over other dumps, with a tally for the
\* same key in its dict
C15_Witness ==
    \E t, u \in Threads :
        /\ run[t].pc = "returned"
        /\ run[t].again
        /\ run[t].dark_files # <<>>
        /\ run[u].pc \in {"rse", "after"}
        /\ run[u].out # <<>>
        /\ run[u].before # run[t].before

----------------------------------------------------------------------------
\* the entries of the two returned lists, as sets
Common(dark, missing) == Range(dark) \cap Range(missing)

----------------------------------------------------------------------------
\* the tallies of a dict
Tallies(d) == { d[j].value : j \in 1..Len(d) }

\* C17: in every state of a run, every tally is below 256, in generic.py's
\* copy of the engine and, at the end of pass 2, in
\* consistency_check_faster.
C17_TallyBelow256 ==
    /\ \A tally \in Tallies(out) : tally < 256
    /\ (pc = "after" /\ pos = 0) =>
           LET p1 == faster_before(rucio_dump_before, Len(rucio_dump_before))
           IN  ~p1.raised =>
                   \A tally \in Tallies(faster_rse(p1.out, rse_dump, Len(rse_dump))) :
                       tally < 256

----------------------------------------------------------------------------
(* process_output, as the claims speak of it.                              *)

\* the call of process_output has ended
Ended == po_pc \in {"FileNotFoundError", "ValueError", "AssertionError",
                    "NameError", "returned"}

\* the labels of the lines of the result file: the text before the first
\* comma, for the lines that hold a comma
LineLabels == LET lines == readlines(file_results.data)
              IN  [j \in 1..Len(lines) |-> split_at(rstrip(lines[j]), ",")]

\* every line is a label DARK or MISSING, a comma and a path
WellFormedResult ==
    \A j \in 1..Len(LineLabels) :
        Len(LineLabels[j]) = 2 /\ LineLabels[j][1] \in {LabelDark, LabelMissing}

\* the number of lines with the label
Labelled(label) ==
    Cardinality({ j \in 1..Len(LineLabels) :
                      Len(LineLabels[j]) = 2 /\ LineLabels[j][1] = label })

\* more DARK entries, or more MISSING entries, than threshold times the
\* file count of the RSE
Excessive ==
    \/ Labelled(LabelDark) * 10 > usage_files
    \/ Labelled(LabelMissing) * 10 > usage_files

\* C18: when sanity_check is true and the DARK or the MISSING entries of a
\* well-formed result file exceed threshold times the RSE's file count,
\* process_output ends with the AssertionError of the sanity check, before
\* the statements that insert into the quarantine, declare and compress:
\* the plain file is there and no .bz2.  When a line carries another label
\* it ends likewise with a ValueError.
C18_SanityAborts ==
    (call = "process_output" /\ file_results.exists /\ Ended) =>
        /\ (WellFormedResult /\ sanity_check /\ Excessive) =>
               /\ po_pc = "AssertionError"
               /\ ~results_bz2.exists
        /\ (\E j \in 1..Len(LineLabels) :
                Len(LineLabels[j]) = 2
                /\ LineLabels[j][1] \notin {LabelDark, LabelMissing}) =>
               /\ po_pc = "ValueError"
               /\ ~results_bz2.exists

\* C18's case: the sanity check has failed on the MISSING entries alone
C18_Witness ==
    /\ call = "process_output"
    /\ po_pc = "AssertionError"
    /\ sanity_check
    /\ Len(dark_replicas) * 10 <= usage_files
    /\ Len(missing_replicas) * 10 > usage_files

\* C19: for a well-formed result file that passes the sanity check (or is
\* not submitted to it), process_output carries out the two actions and
\* returns True.
C19_ActsAndReturnsTrue ==
    ( /\ call = "process_output" /\ file_results.exists /\ Ended
      /\ WellFormedResult
      /\ ~(sanity_check /\ Excessive) )
    => po_pc = "returned"

----------------------------------------------------------------------------
(* The tallies of the three passes.                                        *)

\* the key the engine makes of a catalog line
KeyOf(line) == split(line)[8] \o NL

\* the catalog line has status A
Available(line) == split(line)[11] = StatusA

\* the dict at the end of pass 2 of consistency_check_faster on the dumps of
\* this run (the catalog dump taken before has no short line)
AfterPass2 ==
    faster_rse(faster_before(rucio_dump_before, Len(rucio_dump_before)).out,
               rse_dump, Len(rse_dump))

\* the tally of key k in the dict d, 0 when d has no entry for k
TallyOf(d, k) == IF contains(d, k) THEN getitem(d, k) ELSE 0

\* C21: at the end of pass 3 over a catalog dump that names each identifier
\* once, the tally of each of its identifiers is its tally at the end of
\* pass 2 (none if it was not in the state) plus 4, plus 1 if the record has
\* status A: 5 for an identifier new in pass 3 with status A.  Stated for
\* generic.py's copy of the engine and for consistency_check_faster, on
\* catalog dumps whose lines all have their 11 fields.
C21_Pass3Tally ==
    (pc = "after" /\ pos = Len(rucio_dump_after) /\ WellFormed /\ OncePerDump) =>
        \A j \in 1..Len(rucio_dump_after) :
            LET line == rucio_dump_after[j]
                expected == TallyOf(AfterPass2, KeyOf(line)) + 4
                                + (IF Available(line) THEN 1 ELSE 0)
                p3 == faster_after(AfterPass2, rucio_dump_after, Len(rucio_dump_after))
            IN  /\ TallyOf(out, KeyOf(line)) = expected
                /\ TallyOf(p3.out, KeyOf(line)) = expected

\* the index of the last line of the catalog dump that makes the key k
LastLine(dump, k) ==
    CHOOSE j \in 1..Len(dump) :
        KeyOf(dump[j]) = k /\ \A m \in (j + 1)..Len(dump) : KeyOf(dump[m]) # k

\* the tally pass 1 leaves for key k: 16, plus 2 if the last line that makes
\* k has status A
LastWrite(dump, k) == 16 + (IF Available(dump[LastLine(dump, k)]) THEN 2 ELSE 0)

\* the dict holds an entry for each key of the catalog dump and no other,
\* each with the tally LastWrite
IsLastWrites(d, dump) ==
    /\ \A j \in 1..Len(dump) : contains(d, KeyOf(dump[j]))
    /\ \A j \in 1..Len(d) :
           /\ \E m \in 1..Len(dump) : KeyOf(dump[m]) = d[j].key
           /\ d[j].value = LastWrite(dump, d[j].key)

\* C22: at the end of pass 1 the tally of every identifier of the catalog
\* dump taken before is 16, plus 2 if its last occurrence has status A,
\* whatever the earlier occurrences: in generic.py's copy of the engine, in
\* consistency_check_faster and in consistency_check_fast.
C22_LastWriteWins ==
    (pc = "rse" /\ pos = 0) =>
        /\ IsLastWrites(out, rucio_dump_before)
        /\ LET p1 == faster_before(rucio_dump_before, Len(rucio_dump_before))
           IN  ~p1.raised /\ IsLastWrites(p1.out, rucio_dump_before)
        /\ LET rucio_dump == prepare_rucio_dump(rucio_dump_before, Len(rucio_dump_before))
           IN  /\ ~rucio_dump.raised
               /\ IsLastWrites(fast_before(rucio_dump, Len(rucio_dump.keys)).out,
                               rucio_dump_before)

\* C22's case: pass 1 has ended on a dump that names one identifier twice,
\* first with status A, then with another status
C22_Witness ==
    /\ pc = "rse"
    /\ pos = 0
    /\ Len(rucio_dump_before) = 2
    /\ KeyOf(rucio_dump_before[1]) = KeyOf(rucio_dump_before[2])
    /\ Available(rucio_dump_before[1])
    /\ ~Available(rucio_dump_before[2])
    /\ Len(out) = 1
    /\ out[1].value = 16

\* a pass has just ended: pass 1, pass 2 or pass 3
PassEnded == (pc \in {"rse", "after"} /\ pos = 0) \/ pc = "open"

\* the identifiers of the lines read in the passes that have ended; an empty
\* storage line is counted as holding the empty identifier
IdentsRead ==
    CatalogIds(rucio_dump_before)
        \cup (IF pc \in {"after", "open"} THEN Idents(rse_dump) ELSE {})
        \cup (IF pc = "open" THEN CatalogIds(rucio_dump_after) ELSE {})

\* a step that removes no entry of the state and lowers no tally
NothingLowered ==
    \A j \in 1..Len(out) :
        /\ contains(out', out[j].key)
        /\ getitem(out', out[j].key) >= out[j].value

\* C23: at the end of each pass the reconciliation state holds exactly one
\* entry for each distinct identifier read in the passes so far (stated for
\* catalog dumps whose lines all have their 11 fields), and no step of pass
\* 2 or pass 3 removes an entry or lowers a tally.
C23_OneEntryPerIdentifier ==
    /\ []( (PassEnded /\ WellFormed) =>
             ( /\ { Ident(out[j].key) : j \in 1..Len(out) } = IdentsRead
               /\ Len(out) = Cardinality(IdentsRead) ) )
    /\ [][ (pc \in {"rse", "after"}) => NothingLowered ]_vars

----------------------------------------------------------------------------
\* what process_output's parser makes of the lines of a file's content: for
\* each line, the texts before and after its first comma
Parsed(data) ==
    LET lines == readlines(data)
    IN  [j \in 1..Len(lines) |-> split_at(rstrip(lines[j]), ",")]

\* C24: when generic_auditor has written its result file, process_output's
\* parser accepts every line of it: each line splits at its first comma
\* into a label and a path, the label is DARK or MISSING, and the lines
\* with label DARK are as many as the DARK entries written, those with
\* label MISSING as many as the MISSING entries.
C24_WrittenLinesParse ==
    pc = "done" =>
        LET fields == Parsed(file_results.data)
        IN  /\ \A j \in 1..Len(fields) :
                   /\ Len(fields[j]) = 2
                   /\ fields[j][1] \in {LabelDark, LabelMissing}
            /\ Cardinality({ j \in 1..Len(fields) : fields[j][1] = LabelDark })
                   = Len(dark_files)
            /\ Cardinality({ j \in 1..Len(fields) : fields[j][1] = LabelMissing })
                   = Len(missing_files)

----------------------------------------------------------------------------
\* C27: when generic_auditor has returned results_path, after a consistency
\* check or because the audit was already done, the three cached dumps are
\* removed if keep_dumps is false and all in the cache if it is true; when
\* consistency_check or a write to the result file has raised, the three
\* cached dumps are in the cache.
C27_CachedDumpsRemoved ==
    /\ ReturnedPath => cache = (IF keep_dumps THEN cached_dumps ELSE {})
    /\ pc \in {"raised", "write_failed"} => cache = cached_dumps

\* C27's case: the audit was already done, keep_dumps is false, and
\* generic_auditor has returned with the cache emptied
C27_Witness ==
    /\ pc = "skipped"
    /\ ~keep_dumps
    /\ results_bz2.exists
    /\ cache = {}

----------------------------------------------------------------------------
\* C25: every call of fetch_object_store ends, by a return or by an
\* exception that leaves it, whatever the cache holds and however the
\* downloads end.
C25_Terminates == <>(fo_pc \in {"returned", "raised"})

\* C26: when fetch_object_store has returned (path, date), the file at path
\* exists in the cache and is the dump of the returned date.
C26_ReturnedFileExists ==
    fo_pc = "returned" =>
        /\ fetched_path \in cache_dir
        /\ fetched_path = date

----------------------------------------------------------------------------
\* the link is read by strptime with the pattern base_url/dump_%Y%m%d
Matches(link) == strptime(link, base_url) # ValueError

\* C28: when get_newest_dump returns, it returns one of the links that match
\* the pattern, with the date strptime reads in it, and no matching link has
\* a later date; when it raises RuntimeError, no link matches; and it
\* raises when no link matches.
C28_NewestMatchingLink ==
    /\ gn_pc = "returned" =>
           /\ newest.link \in Range(links)
           /\ Matches(newest.link)
           /\ newest.time = strptime(newest.link, base_url)
           /\ \A link \in Range(links) :
                  Matches(link) =>
                      Ordinal(strptime(link, base_url)) <= Ordinal(newest.time)
    /\ gn_pc = "RuntimeError" => \A link \in Range(links) : ~Matches(link)
    /\ (gn_pc \in {"returned", "RuntimeError"} /\ \A link \in Range(links) : ~Matches(link))
           => gn_pc = "RuntimeError"

\* C28's case: of three links the second is returned, the first matches with
\* an earlier date and the third does not match
C28_Witness ==
    /\ gn_pc = "returned"
    /\ Len(links) = 3
    /\ newest.link = links[2]
    /\ Matches(links[1])
    /\ Ordinal(strptime(links[1], base_url)) < Ordinal(newest.time)
    /\ ~Matches(links[3])

----------------------------------------------------------------------------
\* C29: when auditor_qt.run, called with once false, has returned, every
\* worker thread has ended.
C29_ReturnsAfterAllThreads ==
    run_pc = "returned" => \A i \in 1..Len(thread_list) : thread_list[i] = "dead"

----------------------------------------------------------------------------
\* every consumer thread has left its loop, has called disconnect() on each
\* of its connections and has ended
AllDisconnected ==
    /\ Len(consumer_threads) = total_threads
    /\ \A t \in 1..Len(consumer_threads) :
           /\ consumer_threads[t].pc = "done"
           /\ consumer_threads[t].disconnects = 1..Len(brokers)

\* C30: once graceful_stop is set, every consumer thread comes to leave its
\* loop, to call disconnect() on each of its connections, whether or not a
\* disconnect fails, and to end; and run() comes to return.
C30_StopsAndReturns ==
    /\ graceful_stop ~> AllDisconnected
    /\ graceful_stop ~> (main_pc = "returned")

====
